---- MODULE Spec2Model ----
(***************************************************************************)
(* A model of the battle server: SocketHandler (socket.handler.ts) owning  *)
(* the registry of active battles and the TimerManager, and BattleManager  *)
(* with MovementSystem, CombatSystem and TurnManager mutating one battle   *)
(* record.  One battle id is modelled; every handler of the event loop is  *)
(* one atomic action (Node runs each callback to completion).              *)
(* Timestamps (turnStartTime, updatedAt, createdAt) are not modelled.      *)
(* Spec is the server; UnitSpec calls the functions of the game classes on *)
(* battle records of their own; SearchSpec runs MovementSystem.findPath of *)
(* MovementSystem.old.ts pass by pass.                                     *)
(***************************************************************************)
EXTENDS Integers, Sequences, FiniteSets, TLC

VARIABLES
  activeBattles,   \* SocketHandler.activeBattles: battle id -> GameState
  turnTimers,      \* TimerManager.turnTimers entry of the battle id
  battleTimers,    \* TimerManager.battleTimers entry of the battle id
  botCallbacks,    \* pending setTimeout callbacks of handleBotTurn
  evictions,       \* pending setTimeout callbacks of handleBattleEnd
  battleEnds,      \* number of handleBattleEnd invocations so far
  orphanTimeouts,  \* timeouts still scheduled whose handle no map holds
  created,         \* a battle has been created (its uuid allocated)
  steps,           \* number of handlers run so far
  last,            \* the last handler run and what it returned
  call,            \* a function of the game classes called on a battle record
  frame            \* the locals of one MovementSystem.findPath invocation

vars == <<activeBattles, turnTimers, battleTimers, botCallbacks, evictions,
          battleEnds, orphanTimeouts, created, steps, last, call, frame>>

-----------------------------------------------------------------------------
(* Bounds of the model.  The grid, the team size and the hit points are     *)
(* scaled down from GAME_CONSTANTS / createDefaultCharacters so that        *)
(* contact, kills and battle end are reached within the explored space.     *)

GridWidth == 3          \* GAME_CONSTANTS.GRID_WIDTH is 8
GridHeight == 2         \* GAME_CONSTANTS.GRID_HEIGHT is 10
CharsPerTeam == 2       \* createDefaultCharacters makes 3; the first ones are kept
HpCap == 12             \* every maxHp is capped at this value
MaxSteps == 4           \* handler runs explored from the start of the server

(* Program constants.                                                       *)
MOVEMENT_POINTS_PER_TURN == 2
MAX_MOVE_DISTANCE_PER_ACTION == 1
MELEE_ATTACK_RANGE == 1
RANGED_ATTACK_RANGE == 4

PLAYER1 == "PLAYER1"
PLAYER2 == "PLAYER2"
Team == {PLAYER1, PLAYER2}
NoTeam == "null"

BattleId == "b1"
Player1Id == "p1"
Player2Id == "p2"
AI_BOT == "AI_BOT"
SYSTEM == "SYSTEM"
SpectatorId == "spectator"

Min(a, b) == IF a < b THEN a ELSE b
Max(a, b) == IF a > b THEN a ELSE b
Abs(a) == IF a < 0 THEN 0 - a ELSE a

Pos(px, py) == [x |-> px, y |-> py]

-----------------------------------------------------------------------------
(* GridSystem                                                               *)

isValidPosition(p) ==
  /\ p.x >= 0 /\ p.x < GridWidth
  /\ p.y >= 0 /\ p.y < GridHeight

positionsEqual(a, b) == a.x = b.x /\ a.y = b.y

calculateDistance(a, b) == Abs(a.x - b.x) + Abs(a.y - b.y)

Cells == {Pos(cx, cy) : cx \in 0..(GridWidth - 1), cy \in 0..(GridHeight - 1)}

\* a cell other than the two ends lying on the straight segment between them
OnSegment(c, from, to) ==
  /\ c # from /\ c # to
  /\ (c.x - from.x) * (to.y - from.y) = (c.y - from.y) * (to.x - from.x)
  /\ c.x >= Min(from.x, to.x) /\ c.x <= Max(from.x, to.x)
  /\ c.y >= Min(from.y, to.y) /\ c.y <= Max(from.y, to.y)

hasLineOfSight(from, to, obstacles) ==
  ~ \E c \in obstacles : OnSegment(c, from, to)

-----------------------------------------------------------------------------
(* BattleManager.createBattle / createDefaultCharacters                     *)

CharIds == 1..(2 * CharsPerTeam)
TeamOfId(i) == IF i <= CharsPerTeam THEN PLAYER1 ELSE PLAYER2
SlotOfId(i) == ((i - 1) % CharsPerTeam) + 1
KindOfId(i) == ((SlotOfId(i) - 1) % 3) + 1   \* 1 Warrior, 2 Archer, 3 Knight

WarriorMaxHp == 100
ArcherMaxHp == 70
KnightMaxHp == 120
WarriorDamage == 20
ArcherDamage == 15
KnightDamage == 18
WarriorArmor == 5
ArcherArmor == 2
KnightArmor == 8

KindMaxHp(k) == Min(HpCap, CASE k = 1 -> WarriorMaxHp [] k = 2 -> ArcherMaxHp [] OTHER -> KnightMaxHp)
KindDamage(k) == CASE k = 1 -> WarriorDamage [] k = 2 -> ArcherDamage [] OTHER -> KnightDamage
KindArmor(k) == CASE k = 1 -> WarriorArmor [] k = 2 -> ArcherArmor [] OTHER -> KnightArmor
KindCombatType(k) == IF k = 2 THEN "RANGED" ELSE "MELEE"

\* team 1 starts on the last column, team 2 on column 0, one row per slot
StartPosition(i) ==
  Pos(IF TeamOfId(i) = PLAYER1 THEN GridWidth - 1 ELSE 0,
      (SlotOfId(i) - 1) % GridHeight)

createDefaultCharacter(i) ==
  [ id |-> i,
    team |-> TeamOfId(i),
    position |-> StartPosition(i),
    maxHp |-> KindMaxHp(KindOfId(i)),
    currentHp |-> KindMaxHp(KindOfId(i)),
    baseDamage |-> KindDamage(KindOfId(i)),
    baseArmor |-> KindArmor(KindOfId(i)),
    combatType |-> KindCombatType(KindOfId(i)),
    weaponDamageBonus |-> 0,   \* equipment: {} -- no WEAPON
    armorArmorBonus |-> 0,     \* equipment: {} -- no ARMOR
    isAlive |-> TRUE,
    hasAttacked |-> FALSE,
    movementPointsLeft |-> MOVEMENT_POINTS_PER_TURN ]

createBattle(player1Id, player2Id) ==
  [ id |-> BattleId,
    player1Id |-> player1Id,
    player2Id |-> player2Id,
    characters |-> [i \in CharIds |-> createDefaultCharacter(i)],
    currentTurn |-> PLAYER1,
    turnNumber |-> 1,
    movementPointsLeft |-> MOVEMENT_POINTS_PER_TURN,
    status |-> "active",
    winner |-> NoTeam,
    autoEndTurn |-> FALSE ]

\* createBattle and createDefaultCharacters as written, not scaled down: the
\* board of GAME_CONSTANTS, three characters per team with their full stats
\* on the scripted cells.  The uuids are the numbers 1..6.
GRID_WIDTH == 8
GRID_HEIGHT == 10

Player1Positions == <<Pos(7, 1), Pos(7, 4), Pos(7, 7)>>
Player2Positions == <<Pos(0, 1), Pos(0, 4), Pos(0, 7)>>

defaultCharacter(uuid, team, position, kind) ==
  [ id |-> uuid,
    team |-> team,
    position |-> position,
    maxHp |-> CASE kind = 1 -> WarriorMaxHp [] kind = 2 -> ArcherMaxHp [] OTHER -> KnightMaxHp,
    currentHp |-> CASE kind = 1 -> WarriorMaxHp [] kind = 2 -> ArcherMaxHp [] OTHER -> KnightMaxHp,
    baseDamage |-> KindDamage(kind),
    baseArmor |-> KindArmor(kind),
    combatType |-> KindCombatType(kind),
    weaponDamageBonus |-> 0,
    armorArmorBonus |-> 0,
    isAlive |-> TRUE,
    hasAttacked |-> FALSE,
    movementPointsLeft |-> MOVEMENT_POINTS_PER_TURN ]

\* createDefaultCharacters as it would be if it read positions[0] three times
createDefaultCharactersOnOneCell(team, positions, firstUuid) ==
  <<defaultCharacter(firstUuid, team, positions[1], 1),
    defaultCharacter(firstUuid + 1, team, positions[1], 2),
    defaultCharacter(firstUuid + 2, team, positions[1], 3)>>

createDefaultCharacters(team, positions, firstUuid) ==
  <<defaultCharacter(firstUuid, team, positions[1], 1),
    defaultCharacter(firstUuid + 1, team, positions[2], 2),
    defaultCharacter(firstUuid + 2, team, positions[3], 3)>>

createBattleAsWritten(player1Id, player2Id) ==
  LET player1Characters == createDefaultCharacters(PLAYER1, Player1Positions, 1)
      player2Characters == createDefaultCharacters(PLAYER2, Player2Positions, 4)
  IN [ id |-> BattleId,
       player1Id |-> player1Id,
       player2Id |-> player2Id,
       gridWidth |-> GRID_WIDTH,
       gridHeight |-> GRID_HEIGHT,
       characters |-> player1Characters \o player2Characters,
       currentTurn |-> PLAYER1,
       turnNumber |-> 1,
       movementPointsLeft |-> MOVEMENT_POINTS_PER_TURN,
       status |-> "active",
       winner |-> NoTeam ]

-----------------------------------------------------------------------------
(* TurnManager                                                              *)

OtherTeam(t) == IF t = PLAYER1 THEN PLAYER2 ELSE PLAYER1

\* startTurn as it would be if it did not refill the team-level pool
startTurnKeepsPool(gs) ==
  [gs EXCEPT
     !.characters = [i \in CharIds |->
        IF gs.characters[i].team = gs.currentTurn /\ gs.characters[i].isAlive
        THEN [gs.characters[i] EXCEPT !.hasAttacked = FALSE,
                                      !.movementPointsLeft = MOVEMENT_POINTS_PER_TURN]
        ELSE gs.characters[i]]]

\* startTurn as it would be if it did not ask whether a character is alive
startTurnResetsDead(gs) ==
  [gs EXCEPT
     !.characters = [i \in CharIds |->
        IF gs.characters[i].team = gs.currentTurn
        THEN [gs.characters[i] EXCEPT !.hasAttacked = FALSE,
                                      !.movementPointsLeft = MOVEMENT_POINTS_PER_TURN]
        ELSE gs.characters[i]],
     !.movementPointsLeft = MOVEMENT_POINTS_PER_TURN]

startTurn(gs) ==
  [gs EXCEPT
     !.characters = [i \in CharIds |->
        IF gs.characters[i].team = gs.currentTurn /\ gs.characters[i].isAlive
        THEN [gs.characters[i] EXCEPT !.hasAttacked = FALSE,
                                      !.movementPointsLeft = MOVEMENT_POINTS_PER_TURN]
        ELSE gs.characters[i]],
     !.movementPointsLeft = MOVEMENT_POINTS_PER_TURN]

\* endTurn as it would be if it counted every half-turn
endTurnCountsEveryTurn(gs) ==
  LET flipped == [gs EXCEPT !.currentTurn = OtherTeam(gs.currentTurn)]
      counted == [flipped EXCEPT !.turnNumber = @ + 1]
  IN startTurn(counted)

endTurn(gs) ==
  LET flipped == [gs EXCEPT !.currentTurn = OtherTeam(gs.currentTurn)]
      counted == IF flipped.currentTurn = PLAYER1
                 THEN [flipped EXCEPT !.turnNumber = @ + 1]
                 ELSE flipped
  IN startTurn(counted)

\* getPlayerTeam as it would be if every id but player 1's stood for PLAYER2
getPlayerTeamDefaultsToSecond(playerId, gs) ==
  IF playerId = gs.player1Id THEN PLAYER1 ELSE PLAYER2

getPlayerTeam(playerId, gs) ==
  IF playerId = gs.player1Id THEN PLAYER1
  ELSE IF playerId = gs.player2Id THEN PLAYER2
  ELSE NoTeam

\* canAct as it would be if it only asked for a participant
canActAnyParticipant(playerId, gs) == getPlayerTeam(playerId, gs) # NoTeam

canAct(playerId, gs) == getPlayerTeam(playerId, gs) = gs.currentTurn

\* hasActionsLeft as it would be if it counted dead characters too
hasActionsLeftCountsDead(gs) ==
  LET teamCharacters == {i \in CharIds : gs.characters[i].team = gs.currentTurn}
  IN \/ \E i \in teamCharacters : gs.characters[i].movementPointsLeft > 0
     \/ \E i \in teamCharacters : ~ gs.characters[i].hasAttacked

hasActionsLeft(gs) ==
  LET teamCharacters == {i \in CharIds : gs.characters[i].team = gs.currentTurn
                                          /\ gs.characters[i].isAlive}
  IN \/ \E i \in teamCharacters : gs.characters[i].movementPointsLeft > 0
     \/ \E i \in teamCharacters : ~ gs.characters[i].hasAttacked

autoEndTurnIfNeeded(gs) ==
  IF ~ hasActionsLeft(gs) THEN endTurn(gs) ELSE gs

-----------------------------------------------------------------------------
(* MovementSystem (single-step rule set of MovementSystem.ts)               *)

Valid == "valid"

\* canMove as it would be without the test of the destination's occupant
canMoveOntoOthers(character, to, gs) ==
  IF character.team # gs.currentTurn THEN "Not this character's turn"
  ELSE IF ~ isValidPosition(to) THEN "Invalid position"
  ELSE IF positionsEqual(character.position, to) THEN "Already at this position"
  ELSE IF calculateDistance(character.position, to) > MAX_MOVE_DISTANCE_PER_ACTION
       THEN "Can only move 1 cell at a time"
  ELSE IF character.movementPointsLeft <= 0 THEN "No movement points left"
  ELSE Valid

canMove(character, to, gs) ==
  IF character.team # gs.currentTurn THEN "Not this character's turn"
  ELSE IF ~ isValidPosition(to) THEN "Invalid position"
  ELSE IF positionsEqual(character.position, to) THEN "Already at this position"
  ELSE IF \E i \in CharIds : /\ gs.characters[i].isAlive
                             /\ gs.characters[i].id # character.id
                             /\ positionsEqual(gs.characters[i].position, to)
       THEN "Cell is occupied by another character"
  ELSE IF calculateDistance(character.position, to) > MAX_MOVE_DISTANCE_PER_ACTION
       THEN "Can only move 1 cell at a time"
  ELSE IF character.movementPointsLeft <= 0 THEN "No movement points left"
  ELSE Valid

\* executeMove as it would be if it set hasAttacked where the earlier
\* revision set hasMoved
executeMoveMarksAttacked(characterId, to, gs) ==
  LET moved == [gs EXCEPT
                  !.characters[characterId].position = to,
                  !.characters[characterId].hasAttacked = TRUE,
                  !.characters[characterId].movementPointsLeft = @ - 1,
                  !.movementPointsLeft = @ - 1]
      allCharactersUsedMovement ==
        \A i \in CharIds :
          (moved.characters[i].team = moved.currentTurn /\ moved.characters[i].isAlive)
            => moved.characters[i].movementPointsLeft <= 0
  IN IF allCharactersUsedMovement \/ moved.movementPointsLeft <= 0
     THEN [moved EXCEPT !.autoEndTurn = TRUE]
     ELSE moved

\* executeMove as it would be if it charged the character only
executeMoveFreeForTeam(characterId, to, gs) ==
  LET moved == [gs EXCEPT
                  !.characters[characterId].position = to,
                  !.characters[characterId].movementPointsLeft = @ - 1]
      allCharactersUsedMovement ==
        \A i \in CharIds :
          (moved.characters[i].team = moved.currentTurn /\ moved.characters[i].isAlive)
            => moved.characters[i].movementPointsLeft <= 0
  IN IF allCharactersUsedMovement \/ moved.movementPointsLeft <= 0
     THEN [moved EXCEPT !.autoEndTurn = TRUE]
     ELSE moved

executeMove(characterId, to, gs) ==
  LET moved == [gs EXCEPT
                  !.characters[characterId].position = to,
                  !.characters[characterId].movementPointsLeft = @ - 1,
                  !.movementPointsLeft = @ - 1]
      allCharactersUsedMovement ==
        \A i \in CharIds :
          (moved.characters[i].team = moved.currentTurn /\ moved.characters[i].isAlive)
            => moved.characters[i].movementPointsLeft <= 0
  IN IF allCharactersUsedMovement \/ moved.movementPointsLeft <= 0
     THEN [moved EXCEPT !.autoEndTurn = TRUE]
     ELSE moved

-----------------------------------------------------------------------------
(* MovementSystem.old.ts: the path-budgeted rule set.  findPath is an A*    *)
(* search kept as a frame of its locals: findPathEnter runs the function up *)
(* to the loop, findPathIterate runs one pass of the while loop (its        *)
(* condition included), findPath runs the frame until the function returns. *)
(* A Map is a function on the keys set so far; Infinity is a value above    *)
(* every number.                                                            *)

Infinity == 0 - 1
maxIterations == 1000
NoPath == <<>>

\* a < b for numbers and Infinity
LessThan(a, b) == a # Infinity /\ (b = Infinity \/ a < b)

\* a + 1
PlusOne(a) == IF a = Infinity THEN Infinity ELSE a + 1

\* (map.get(key) || Infinity): undefined and 0 are both falsy
getOrInfinity(map, key) ==
  IF key \in DOMAIN map /\ map[key] # 0 THEN map[key] ELSE Infinity

set(map, key, value) ==
  [k \in DOMAIN map \cup {key} |-> IF k = key THEN value ELSE map[k]]

EmptyMap == [k \in {} |-> 0]

\* the orthogonal neighbours that are cells of the grid
getAdjacentCells(p) ==
  SelectSeq(<<Pos(p.x, p.y - 1), Pos(p.x, p.y + 1), Pos(p.x - 1, p.y), Pos(p.x + 1, p.y)>>,
            isValidPosition)

RECURSIVE reconstructPath(_, _)
reconstructPath(cameFrom, current) ==
  IF current \in DOMAIN cameFrom
  THEN Append(reconstructPath(cameFrom, cameFrom[current]), current)
  ELSE <<current>>

Returned(f, result) == [f EXCEPT !.pc = "returned", !.result = result]

findPathEnter(start, goal, characters, movingCharacterId) ==
  LET f == [pc |-> "loop", start |-> start, goal |-> goal, characters |-> characters,
            movingCharacterId |-> movingCharacterId,
            openSet |-> <<start>>, closedSet |-> {}, cameFrom |-> EmptyMap,
            gScore |-> set(EmptyMap, start, 0),
            fScore |-> set(EmptyMap, start, calculateDistance(start, goal)),
            iterations |-> 0, result |-> NoPath]
  IN IF positionsEqual(start, goal) THEN Returned(f, <<start>>)
     ELSE IF ~ isValidPosition(goal) THEN Returned(f, NoPath)
     ELSE f

\* the index of the first cell of openSet with the least fScore
RECURSIVE indexOfCurrent(_, _, _)
indexOfCurrent(f, i, currentIndex) ==
  IF i > Len(f.openSet) THEN currentIndex
  ELSE IF LessThan(getOrInfinity(f.fScore, f.openSet[i]),
                   getOrInfinity(f.fScore, f.openSet[currentIndex]))
       THEN indexOfCurrent(f, i + 1, i)
       ELSE indexOfCurrent(f, i + 1, currentIndex)

without(seq, index) ==
  [i \in 1..(Len(seq) - 1) |-> IF i < index THEN seq[i] ELSE seq[i + 1]]

\* the body of the for loop over the neighbours of current, from the i-th on
RECURSIVE visitNeighbors(_, _, _, _)
visitNeighbors(f, current, neighbors, i) ==
  IF i > Len(neighbors) THEN f
  ELSE
    LET neighbor == neighbors[i]
        occupiedByOther ==
          \E c \in DOMAIN f.characters :
            /\ f.characters[c].isAlive
            /\ f.characters[c].id # f.movingCharacterId
            /\ positionsEqual(f.characters[c].position, neighbor)
        tentativeGScore == PlusOne(getOrInfinity(f.gScore, current))
    IN IF neighbor \in f.closedSet THEN visitNeighbors(f, current, neighbors, i + 1)
       ELSE IF ~ isValidPosition(neighbor) THEN visitNeighbors(f, current, neighbors, i + 1)
       ELSE IF ~ positionsEqual(neighbor, f.goal) /\ occupiedByOther
            THEN visitNeighbors(f, current, neighbors, i + 1)
       ELSE IF LessThan(tentativeGScore, getOrInfinity(f.gScore, neighbor))
            THEN visitNeighbors(
                   [f EXCEPT
                      !.cameFrom = set(@, neighbor, current),
                      !.gScore = set(@, neighbor, tentativeGScore),
                      !.fScore = set(@, neighbor,
                                     tentativeGScore + calculateDistance(neighbor, f.goal)),
                      !.openSet = IF \E k \in 1..Len(@) : positionsEqual(@[k], neighbor)
                                  THEN @ ELSE Append(@, neighbor)],
                   current, neighbors, i + 1)
       ELSE visitNeighbors(f, current, neighbors, i + 1)

\* the while loop as it would be if it neither counted its passes nor took
\* the current cell out of openSet
findPathIterateStuck(f) ==
  IF ~ (Len(f.openSet) > 0) THEN Returned(f, NoPath)
  ELSE
    LET currentIndex == indexOfCurrent(f, 2, 1)
        current == f.openSet[currentIndex]
    IN IF positionsEqual(current, f.goal)
       THEN Returned(f, reconstructPath(f.cameFrom, current))
       ELSE visitNeighbors(f, current, getAdjacentCells(current), 1)

findPathIterate(f) ==
  IF ~ (Len(f.openSet) > 0 /\ f.iterations < maxIterations) THEN Returned(f, NoPath)
  ELSE
    LET counted == [f EXCEPT !.iterations = @ + 1]
        currentIndex == indexOfCurrent(counted, 2, 1)
        current == counted.openSet[currentIndex]
    IN IF positionsEqual(current, counted.goal)
       THEN Returned(counted, reconstructPath(counted.cameFrom, current))
       ELSE visitNeighbors([counted EXCEPT !.openSet = without(@, currentIndex),
                                           !.closedSet = @ \cup {current}],
                           current, getAdjacentCells(current), 1)

RECURSIVE findPathRun(_)
findPathRun(f) ==
  IF f.pc = "returned" THEN f.result ELSE findPathRun(findPathIterate(f))

findPath(start, goal, characters, movingCharacterId) ==
  findPathRun(findPathEnter(start, goal, characters, movingCharacterId))

canMove_old(character, to, gs) ==
  IF character.team # gs.currentTurn THEN "Not this character's turn"
  ELSE IF ~ isValidPosition(to) THEN "Invalid position"
  ELSE IF positionsEqual(character.position, to) THEN "Already at this position"
  ELSE IF \E i \in CharIds : /\ gs.characters[i].isAlive
                             /\ gs.characters[i].id # character.id
                             /\ positionsEqual(gs.characters[i].position, to)
       THEN "Cell is occupied by another character"
  ELSE LET path == findPath(character.position, to, gs.characters, character.id)
       IN IF path = NoPath THEN "No valid path to destination"
          ELSE IF Len(path) - 1 > character.movementPointsLeft
               THEN "Not enough movement points"
          ELSE Valid

-----------------------------------------------------------------------------
(* CombatSystem                                                             *)

\* canAttack as it would be without the test of attacker.hasAttacked
canAttackRepeatedly(attacker, target, gs) ==
  IF ~ target.isAlive THEN "Target is not alive"
  ELSE IF attacker.team = target.team THEN "Cannot attack ally"
  ELSE LET distance == calculateDistance(attacker.position, target.position)
           occupiedCells == {gs.characters[i].position : i \in
                               {j \in CharIds : /\ gs.characters[j].isAlive
                                                /\ gs.characters[j].id # attacker.id
                                                /\ gs.characters[j].id # target.id}}
       IN IF attacker.combatType = "MELEE"
          THEN IF distance > MELEE_ATTACK_RANGE THEN "Target is out of melee range"
               ELSE Valid
          ELSE IF distance > RANGED_ATTACK_RANGE THEN "Target is out of ranged attack range"
          ELSE IF ~ hasLineOfSight(attacker.position, target.position, occupiedCells)
               THEN "No line of sight to target"
          ELSE Valid

\* canAttack as it would be without the distance test for a RANGED attacker
canAttackAtAnyRange(attacker, target, gs) ==
  IF attacker.hasAttacked THEN "Character has already attacked this turn"
  ELSE IF ~ target.isAlive THEN "Target is not alive"
  ELSE IF attacker.team = target.team THEN "Cannot attack ally"
  ELSE LET distance == calculateDistance(attacker.position, target.position)
           occupiedCells == {gs.characters[i].position : i \in
                               {j \in CharIds : /\ gs.characters[j].isAlive
                                                /\ gs.characters[j].id # attacker.id
                                                /\ gs.characters[j].id # target.id}}
       IN IF attacker.combatType = "MELEE"
          THEN IF distance > MELEE_ATTACK_RANGE THEN "Target is out of melee range"
               ELSE Valid
          ELSE IF ~ hasLineOfSight(attacker.position, target.position, occupiedCells)
               THEN "No line of sight to target"
          ELSE Valid

\* canAttack as it would be without the test of target.isAlive
canAttackAnyTarget(attacker, target, gs) ==
  IF attacker.hasAttacked THEN "Character has already attacked this turn"
  ELSE IF attacker.team = target.team THEN "Cannot attack ally"
  ELSE LET distance == calculateDistance(attacker.position, target.position)
           occupiedCells == {gs.characters[i].position : i \in
                               {j \in CharIds : /\ gs.characters[j].isAlive
                                                /\ gs.characters[j].id # attacker.id
                                                /\ gs.characters[j].id # target.id}}
       IN IF attacker.combatType = "MELEE"
          THEN IF distance > MELEE_ATTACK_RANGE THEN "Target is out of melee range"
               ELSE Valid
          ELSE IF distance > RANGED_ATTACK_RANGE THEN "Target is out of ranged attack range"
          ELSE IF ~ hasLineOfSight(attacker.position, target.position, occupiedCells)
               THEN "No line of sight to target"
          ELSE Valid

canAttack(attacker, target, gs) ==
  IF attacker.hasAttacked THEN "Character has already attacked this turn"
  ELSE IF ~ target.isAlive THEN "Target is not alive"
  ELSE IF attacker.team = target.team THEN "Cannot attack ally"
  ELSE LET distance == calculateDistance(attacker.position, target.position)
           occupiedCells == {gs.characters[i].position : i \in
                               {j \in CharIds : /\ gs.characters[j].isAlive
                                                /\ gs.characters[j].id # attacker.id
                                                /\ gs.characters[j].id # target.id}}
       IN IF attacker.combatType = "MELEE"
          THEN IF distance > MELEE_ATTACK_RANGE THEN "Target is out of melee range"
               ELSE Valid
          ELSE IF distance > RANGED_ATTACK_RANGE THEN "Target is out of ranged attack range"
          ELSE IF ~ hasLineOfSight(attacker.position, target.position, occupiedCells)
               THEN "No line of sight to target"
          ELSE Valid

\* calculateDamage as it would be without Math.max(1, ...)
calculateDamageNoMinimum(attacker, target) ==
  (attacker.baseDamage + attacker.weaponDamageBonus)
    - (target.baseArmor + target.armorArmorBonus)

calculateDamage(attacker, target) ==
  Max(1, (attacker.baseDamage + attacker.weaponDamageBonus)
           - (target.baseArmor + target.armorArmorBonus))

\* executeAttack as it would be with the sign of the damage reversed
executeAttackAddsDamage(attackerId, targetId, gs) ==
  LET damage == calculateDamage(gs.characters[attackerId], gs.characters[targetId])
      hp == Max(0, gs.characters[targetId].currentHp + damage)
      hit == [gs EXCEPT !.characters[targetId].currentHp = hp,
                        !.characters[targetId].isAlive = IF hp = 0 THEN FALSE ELSE @]
      done == [hit EXCEPT !.characters[attackerId].hasAttacked = TRUE]
  IN [state |-> done, damage |-> damage, killed |-> ~ done.characters[targetId].isAlive]

\* executeAttack as it would be without Math.max(0, ...)
executeAttackNoFloor(attackerId, targetId, gs) ==
  LET damage == calculateDamage(gs.characters[attackerId], gs.characters[targetId])
      hp == gs.characters[targetId].currentHp - damage
      hit == [gs EXCEPT !.characters[targetId].currentHp = hp,
                        !.characters[targetId].isAlive = IF hp = 0 THEN FALSE ELSE @]
      done == [hit EXCEPT !.characters[attackerId].hasAttacked = TRUE]
  IN [state |-> done, damage |-> damage, killed |-> ~ done.characters[targetId].isAlive]

\* the battle record after the attack, with the damage dealt and the kill flag
executeAttack(attackerId, targetId, gs) ==
  LET damage == calculateDamage(gs.characters[attackerId], gs.characters[targetId])
      hp == Max(0, gs.characters[targetId].currentHp - damage)
      hit == [gs EXCEPT !.characters[targetId].currentHp = hp,
                        !.characters[targetId].isAlive = IF hp = 0 THEN FALSE ELSE @]
      done == [hit EXCEPT !.characters[attackerId].hasAttacked = TRUE]
  IN [state |-> done, damage |-> damage, killed |-> ~ done.characters[targetId].isAlive]

NoPlayer == "undefined"

checkBattleEnd(gs) ==
  LET player1Alive == Cardinality({i \in CharIds : gs.characters[i].team = PLAYER1
                                                   /\ gs.characters[i].isAlive})
      player2Alive == Cardinality({i \in CharIds : gs.characters[i].team = PLAYER2
                                                   /\ gs.characters[i].isAlive})
  IN IF player1Alive = 0 THEN [ended |-> TRUE, winner |-> gs.player2Id]
     ELSE IF player2Alive = 0 THEN [ended |-> TRUE, winner |-> gs.player1Id]
     ELSE [ended |-> FALSE, winner |-> NoPlayer]

-----------------------------------------------------------------------------
(* BattleManager.processAction and its handlers.  A result carries the      *)
(* battle record as the call left it (state), whatever success says.        *)

NoChar == 0
NoPos == Pos(0 - 1, 0 - 1)

TypeErrorMessage == "Cannot read properties of undefined (reading 'x')"

Failure(error, gs) ==
  [success |-> FALSE, error |-> error, state |-> gs, damage |-> 0, killedCharacterId |-> NoChar]

Success(gs, damage, killedCharacterId) ==
  [success |-> TRUE, error |-> "", state |-> gs, damage |-> damage,
   killedCharacterId |-> killedCharacterId]

handleEndTurn(gs) == Success(endTurn(gs), 0, NoChar)

\* a MOVE without a destination: handleMove reads action.to.x for its log
\* line, the TypeError is caught by processAction and becomes the error
handleMove(action, gs) ==
  IF action.characterId \notin CharIds THEN Failure("Character not found", gs)
  ELSE IF action.to = NoPos THEN Failure(TypeErrorMessage, gs)
  ELSE LET error == canMove(gs.characters[action.characterId], action.to, gs)
       IN IF error # Valid THEN Failure(error, gs)
          ELSE LET moved == executeMove(action.characterId, action.to, gs)
               IN IF moved.autoEndTurn THEN handleEndTurn(moved)
                  ELSE Success(moved, 0, NoChar)

\* handleAttack as it would be if it marked the attacker before validating
handleAttackMarksFirst(action, gs) ==
  IF action.attackerId \notin CharIds \/ action.targetId \notin CharIds
  THEN Failure("Character not found", gs)
  ELSE LET error == canAttack(gs.characters[action.attackerId],
                              gs.characters[action.targetId], gs)
       IN IF error # Valid
          THEN Failure(error, [gs EXCEPT !.characters[action.attackerId].hasAttacked = TRUE])
          ELSE LET result == executeAttack(action.attackerId, action.targetId, gs)
                   battleEnd == checkBattleEnd(result.state)
                   ended == IF battleEnd.ended
                            THEN [result.state EXCEPT
                                    !.status = "finished",
                                    !.winner = IF battleEnd.winner = gs.player1Id
                                               THEN PLAYER1 ELSE PLAYER2]
                            ELSE result.state
                   killedId == IF result.killed THEN action.targetId ELSE NoChar
               IN IF ended.autoEndTurn /\ ~ battleEnd.ended
                  THEN Success(handleEndTurn(ended).state, result.damage, killedId)
                  ELSE Success(ended, result.damage, killedId)

handleAttack(action, gs) ==
  IF action.attackerId \notin CharIds \/ action.targetId \notin CharIds
  THEN Failure("Character not found", gs)
  ELSE LET error == canAttack(gs.characters[action.attackerId],
                              gs.characters[action.targetId], gs)
       IN IF error # Valid THEN Failure(error, gs)
          ELSE LET result == executeAttack(action.attackerId, action.targetId, gs)
                   battleEnd == checkBattleEnd(result.state)
                   ended == IF battleEnd.ended
                            THEN [result.state EXCEPT
                                    !.status = "finished",
                                    !.winner = IF battleEnd.winner = gs.player1Id
                                               THEN PLAYER1 ELSE PLAYER2]
                            ELSE result.state
                   killedId == IF result.killed THEN action.targetId ELSE NoChar
               IN IF ended.autoEndTurn /\ ~ battleEnd.ended
                  THEN Success(handleEndTurn(ended).state, result.damage, killedId)
                  ELSE Success(ended, result.damage, killedId)

handleSurrender(playerId, gs) ==
  LET loser == IF playerId = gs.player1Id THEN PLAYER1 ELSE PLAYER2
      winner == IF loser = PLAYER1 THEN PLAYER2 ELSE PLAYER1
  IN Success([gs EXCEPT !.status = "finished", !.winner = winner], 0, NoChar)

processAction(action, playerId, gs) ==
  IF ~ canAct(playerId, gs) THEN Failure("Not your turn", gs)
  ELSE CASE action.type = "MOVE" -> handleMove(action, gs)
         [] action.type = "ATTACK" -> handleAttack(action, gs)
         [] action.type = "END_TURN" -> handleEndTurn(gs)
         [] action.type = "SURRENDER" -> handleSurrender(playerId, gs)
         [] OTHER -> Failure("Unknown action type", gs)

-----------------------------------------------------------------------------
(* TimerManager.  A timer entry: inMap says the id has an entry in the map, *)
(* pending that its timeout has neither fired nor been cleared; armedTurn   *)
(* and armedTurnNumber record the turn during which it was armed.           *)

NoTimer == [inMap |-> FALSE, pending |-> FALSE, armedTurn |-> NoTeam, armedTurnNumber |-> 0]

\* clearTurnTimer as it would be if it left the timeout scheduled
clearTurnTimerKeepsTimeout(h) == h

clearTurnTimer(h) == IF h.turnTimers.inMap THEN [h EXCEPT !.turnTimers = NoTimer] ELSE h

clearBattleTimer(h) == IF h.battleTimers.inMap THEN [h EXCEPT !.battleTimers = NoTimer] ELSE h

\* clearAllTimers as it would be if it forgot the battle deadline
clearAllTimersOnlyTurn(h) == clearTurnTimer(h)

clearAllTimers(h) == clearBattleTimer(clearTurnTimer(h))

\* startTurnTimer as it would be without the call of clearTurnTimer
startTurnTimerWithoutClear(h, gs) ==
  LET kept == IF h.turnTimers.pending
              THEN [h EXCEPT !.orphanTimeouts = @ + 1] ELSE h
  IN [kept EXCEPT
        !.turnTimers = [inMap |-> TRUE, pending |-> TRUE,
                        armedTurn |-> gs.currentTurn, armedTurnNumber |-> gs.turnNumber]]

\* Map.set replaces the entry of the id: a timeout still pending in the
\* replaced entry would stay scheduled with no handle left to cancel it
startTurnTimer(h, gs) ==
  LET cleared == clearTurnTimer(h)
      kept == IF cleared.turnTimers.pending
              THEN [cleared EXCEPT !.orphanTimeouts = @ + 1] ELSE cleared
  IN [kept EXCEPT
        !.turnTimers = [inMap |-> TRUE, pending |-> TRUE,
                        armedTurn |-> gs.currentTurn, armedTurnNumber |-> gs.turnNumber]]

startBattleTimer(h, gs) ==
  LET cleared == clearBattleTimer(h)
      kept == IF cleared.battleTimers.pending
              THEN [cleared EXCEPT !.orphanTimeouts = @ + 1] ELSE cleared
  IN [kept EXCEPT
        !.battleTimers = [inMap |-> TRUE, pending |-> TRUE,
                          armedTurn |-> gs.currentTurn, armedTurnNumber |-> gs.turnNumber]]

AliveOf(gs, team) == {i \in CharIds : gs.characters[i].team = team /\ gs.characters[i].isAlive}

RECURSIVE SumHp(_, _)
SumHp(gs, ids) ==
  IF ids = {} THEN 0
  ELSE LET i == CHOOSE j \in ids : TRUE
       IN gs.characters[i].currentHp + SumHp(gs, ids \ {i})

\* determineWinnerByTime with the comparison of the living counts reversed
determineWinnerByTimeReversed(gs) ==
  LET player1Characters == AliveOf(gs, PLAYER1)
      player2Characters == AliveOf(gs, PLAYER2)
  IN IF Cardinality(player1Characters) < Cardinality(player2Characters) THEN PLAYER1
     ELSE IF Cardinality(player2Characters) < Cardinality(player1Characters) THEN PLAYER2
     ELSE IF SumHp(gs, player1Characters) > SumHp(gs, player2Characters) THEN PLAYER1
     ELSE IF SumHp(gs, player2Characters) > SumHp(gs, player1Characters) THEN PLAYER2
     ELSE PLAYER1

\* determineWinnerByTime as it would be if a full tie went to the second team
determineWinnerByTimeTieToSecond(gs) ==
  LET player1Characters == AliveOf(gs, PLAYER1)
      player2Characters == AliveOf(gs, PLAYER2)
      player1Health == SumHp(gs, player1Characters)
      player2Health == SumHp(gs, player2Characters)
  IN IF Cardinality(player1Characters) > Cardinality(player2Characters) THEN PLAYER1
     ELSE IF Cardinality(player2Characters) > Cardinality(player1Characters) THEN PLAYER2
     ELSE IF player1Health > player2Health THEN PLAYER1
     ELSE IF player2Health > player1Health THEN PLAYER2
     ELSE PLAYER2

determineWinnerByTime(gs) ==
  LET player1Characters == AliveOf(gs, PLAYER1)
      player2Characters == AliveOf(gs, PLAYER2)
      player1Health == SumHp(gs, player1Characters)
      player2Health == SumHp(gs, player2Characters)
  IN IF Cardinality(player1Characters) > Cardinality(player2Characters) THEN PLAYER1
     ELSE IF Cardinality(player2Characters) > Cardinality(player1Characters) THEN PLAYER2
     ELSE IF player1Health > player2Health THEN PLAYER1
     ELSE IF player2Health > player1Health THEN PLAYER2
     ELSE PLAYER1

-----------------------------------------------------------------------------
(* SocketHandler.  h is the handler's state: the registry, the timers and   *)
(* the callbacks it has scheduled.                                          *)

Handler == [activeBattles |-> activeBattles, turnTimers |-> turnTimers,
            battleTimers |-> battleTimers, botCallbacks |-> botCallbacks,
            evictions |-> evictions, battleEnds |-> battleEnds,
            orphanTimeouts |-> orphanTimeouts]

NoBattles == [b \in {} |-> 0]
HasBattle(h) == BattleId \in DOMAIN h.activeBattles
SetBattle(h, gs) == [h EXCEPT !.activeBattles = [b \in {BattleId} |-> gs]]

startBattleTimers(h, gs) == startBattleTimer(startTurnTimer(h, gs), gs)

\* stats update, BATTLE_END broadcast, eviction scheduled 30 s later
handleBattleEnd(h) ==
  [h EXCEPT !.battleEnds = @ + 1, !.evictions = @ + 1]

handleBotTurn(h) == [h EXCEPT !.botCallbacks = @ + 1]

NoResult == Failure("", 0)

\* the handler state after the call, with what the call did: outcome is
\* "noBattle", "spectator" (both return before processAction), or "processed"
processBattleAction(h, action, playerId) ==
  IF ~ HasBattle(h) THEN [h |-> h, outcome |-> "noBattle", result |-> NoResult]
  ELSE
    LET gs == h.activeBattles[BattleId]
        isParticipant == playerId = gs.player1Id \/ playerId = gs.player2Id
    IN IF ~ isParticipant THEN [h |-> h, outcome |-> "spectator", result |-> NoResult]
       ELSE
         LET result == processAction(action, playerId, gs)
             newState == result.state
             stored == SetBattle(h, newState)
             shown == [result EXCEPT !.state = 0]
         IN IF ~ result.success
            THEN [h |-> stored, outcome |-> "processed", result |-> shown]
            ELSE IF newState.status = "finished"
            THEN [h |-> handleBattleEnd(clearAllTimers(stored)),
                  outcome |-> "processed", result |-> shown]
            ELSE
              LET timed == IF action.type = "END_TURN"
                           THEN startTurnTimer(stored, newState) ELSE stored
                  bot == IF newState.currentTurn = PLAYER2 /\ newState.player2Id = AI_BOT
                         THEN handleBotTurn(timed) ELSE timed
              IN [h |-> bot, outcome |-> "processed", result |-> shown]

handleTurnTimeout(h) ==
  IF ~ HasBattle(h) THEN [h |-> h, outcome |-> "stale", result |-> NoResult]
  ELSE IF h.activeBattles[BattleId].status # "active"
  THEN [h |-> h, outcome |-> "stale", result |-> NoResult]
  ELSE processBattleAction(h, [type |-> "END_TURN", characterId |-> NoChar,
                               attackerId |-> NoChar, targetId |-> NoChar, to |-> NoPos],
                           SYSTEM)

handleBattleTimeout(h) ==
  IF ~ HasBattle(h) THEN [h |-> h, outcome |-> "stale", result |-> NoResult]
  ELSE IF h.activeBattles[BattleId].status # "active"
  THEN [h |-> h, outcome |-> "stale", result |-> NoResult]
  ELSE LET gs == h.activeBattles[BattleId]
           finished == [gs EXCEPT !.winner = determineWinnerByTime(gs),
                                  !.status = "finished"]
       IN [h |-> handleBattleEnd(clearAllTimers(SetBattle(h, finished))),
           outcome |-> "finished", result |-> NoResult]

-----------------------------------------------------------------------------
(* The requests a client (or the automated opponent) may submit.            *)

OffGrid == Pos(GridWidth, 0)

NoAction == [type |-> "none", characterId |-> NoChar, attackerId |-> NoChar,
             targetId |-> NoChar, to |-> NoPos]

Move(c, t) == [NoAction EXCEPT !.type = "MOVE", !.characterId = c, !.to = t]
Attack(a, t) == [NoAction EXCEPT !.type = "ATTACK", !.attackerId = a, !.targetId = t]

MoveActions ==
  {Move(c, t) : c \in CharIds, t \in Cells \cup {OffGrid}}
    \cup {Move(NoChar, Pos(0, 0)), Move(1, NoPos)}

AttackActions ==
  {Attack(a, t) : a \in CharIds, t \in CharIds} \cup {Attack(NoChar, 1), Attack(1, NoChar)}

OtherActions ==
  {[NoAction EXCEPT !.type = ty] : ty \in {"END_TURN", "SURRENDER", "EQUIP_ITEM"}}

BattleActions == MoveActions \cup AttackActions \cup OtherActions

SocketPlayers == {Player1Id, Player2Id, SpectatorId}

\* a request: who submits it and what it asks.  The spectator, who is turned
\* away whatever it asks, submits one request of each kind.
SpectatorActions == OtherActions \cup {Move(1, Pos(0, 0)), Attack(1, 2 * CharsPerTeam)}

Requests ==
  {<<p, a>> : p \in {Player1Id, Player2Id}, a \in BattleActions}
    \cup {<<SpectatorId, a>> : a \in SpectatorActions}

-----------------------------------------------------------------------------
(* State machine                                                            *)

Commit(h) ==
  /\ steps < MaxSteps
  /\ steps' = steps + 1
  /\ activeBattles' = h.activeBattles
  /\ turnTimers' = h.turnTimers
  /\ battleTimers' = h.battleTimers
  /\ botCallbacks' = h.botCallbacks
  /\ evictions' = h.evictions
  /\ battleEnds' = h.battleEnds
  /\ orphanTimeouts' = h.orphanTimeouts
  /\ UNCHANGED <<call, frame>>

\* what the handler run left to observe: who asked for what and how it ended;
\* the characters named are kept for an accepted action (the BATTLE_UPDATE
\* broadcast carries the action, a BATTLE_ERROR only the message)
Ran(handler, playerId, action, r) ==
  [handler |-> handler, playerId |-> playerId, type |-> action.type,
   characterId |-> IF ~ r.result.success THEN NoChar
                   ELSE IF action.type = "ATTACK" THEN action.attackerId
                   ELSE action.characterId,
   targetId |-> IF r.result.success THEN action.targetId ELSE NoChar,
   to |-> IF r.result.success THEN action.to ELSE NoPos,
   outcome |-> r.outcome, success |-> r.result.success, error |-> r.result.error]

\* the server after construction: no battle, no timer, nothing scheduled
ServerStarted ==
  /\ activeBattles = NoBattles
  /\ turnTimers = NoTimer
  /\ battleTimers = NoTimer
  /\ botCallbacks = 0
  /\ evictions = 0
  /\ battleEnds = 0
  /\ orphanTimeouts = 0
  /\ created = FALSE
  /\ steps = 0
  /\ last = Ran("none", "", NoAction, [outcome |-> "none", result |-> NoResult])

NoCall == [fn |-> "none"]
NoFrame == [pc |-> "none"]

Init ==
  /\ ServerStarted
  /\ call = NoCall
  /\ frame = NoFrame

\* MatchmakingService pairs two players and hands the new battle to the
\* callback given in the constructor
MatchFound ==
  /\ ~ created
  /\ created' = TRUE
  /\ LET gs == createBattle(Player1Id, Player2Id)
     IN Commit(startBattleTimers(SetBattle(Handler, gs), gs))
  /\ last' = Ran("matchFound", "", NoAction, [outcome |-> "created", result |-> NoResult])

\* SocketEvent.MATCHMAKING_BOT
MatchmakingBot ==
  /\ ~ created
  /\ created' = TRUE
  /\ Commit(SetBattle(Handler, createBattle(Player1Id, AI_BOT)))
  /\ last' = Ran("matchmakingBot", "", NoAction, [outcome |-> "created", result |-> NoResult])

\* SocketEvent.BATTLE_ACTION from a connected client
BattleAction(playerId, action) ==
  /\ created
  /\ LET r == processBattleAction(Handler, action, playerId)
     IN /\ Commit(r.h)
        /\ last' = Ran("battleAction", playerId, action, r)
  /\ UNCHANGED created

\* the callback handleBotTurn scheduled; BotAI.calculateMove picks the action
BotCallback(action) ==
  /\ botCallbacks > 0
  /\ LET r == processBattleAction([Handler EXCEPT !.botCallbacks = @ - 1], action, AI_BOT)
     IN /\ Commit(r.h)
        /\ last' = Ran("botCallback", AI_BOT, action, r)
  /\ UNCHANGED created

TurnTimerFires ==
  /\ turnTimers.pending
  /\ LET r == handleTurnTimeout([Handler EXCEPT !.turnTimers.pending = FALSE])
     IN /\ Commit(r.h)
        /\ last' = Ran("turnTimeout", SYSTEM, NoAction, r)
  /\ UNCHANGED created

BattleTimerFires ==
  /\ battleTimers.pending
  /\ LET r == handleBattleTimeout([Handler EXCEPT !.battleTimers.pending = FALSE])
     IN /\ Commit(r.h)
        /\ last' = Ran("battleTimeout", SYSTEM, NoAction, r)
  /\ UNCHANGED created

\* the eviction callback scheduled by handleBattleEnd
Evict ==
  /\ evictions > 0
  /\ Commit(clearAllTimers([Handler EXCEPT !.evictions = @ - 1,
                                            !.activeBattles = NoBattles]))
  /\ last' = Ran("evict", "", NoAction, [outcome |-> "evicted", result |-> NoResult])
  /\ UNCHANGED created

Next ==
  \/ MatchFound
  \/ MatchmakingBot
  \/ \E req \in Requests : BattleAction(req[1], req[2])
  \/ \E action \in BattleActions : BotCallback(action)
  \/ TurnTimerFires
  \/ BattleTimerFires
  \/ Evict

Spec == Init /\ [][Next]_vars

-----------------------------------------------------------------------------
(* The functions of TurnManager, CombatSystem and TimerManager called on    *)
(* their own.  UnitSpec draws a well-formed battle record (currentHp within *)
(* 0..maxHp, isAlive exactly when currentHp > 0, movement points within     *)
(* 0..MOVEMENT_POINTS_PER_TURN) and applies the functions to it: the        *)
(* TurnManager mutators in chains of up to MaxCalls calls, every other      *)
(* function once.  call.gs is the record handed in, call.out what came back *)
(* and call.prev the call before.                                           *)

MaxCalls == 2           \* length of a chain of TurnManager calls
MaxTurnNumber == 2      \* turnNumber of the record drawn
WeaponBonus == 3        \* damageBonus of the WEAPON in an equipped record
ArmorBonus == 20        \* armorBonus of the ARMOR in an equipped record

Conditions == {"fresh", "spent", "idle", "dead"}

withCondition(c, cond) ==
  CASE cond = "fresh" -> c
    [] cond = "spent" -> [c EXCEPT !.currentHp = 1, !.hasAttacked = TRUE,
                                   !.movementPointsLeft = 0]
    [] cond = "idle"  -> [c EXCEPT !.currentHp = c.maxHp - 1, !.movementPointsLeft = 0]
    [] OTHER          -> [c EXCEPT !.currentHp = 0, !.isAlive = FALSE,
                                   !.hasAttacked = TRUE, !.movementPointsLeft = 1]

\* the characters whose condition and cell are drawn; the others of a larger
\* team stay as createDefaultCharacters made them
Drawn == {i \in CharIds : SlotOfId(i) <= 2}

Unequipped == [weapon |-> 0, armor |-> 0]
Equipments == {[weapon |-> WeaponBonus, armor |-> 0], [weapon |-> 0, armor |-> ArmorBonus]}

record(conds, places, equipment, turn, number, pool) ==
  [createBattle(Player1Id, Player2Id) EXCEPT
     !.characters = [i \in CharIds |->
        LET c == IF i \in Drawn
                 THEN [withCondition(createDefaultCharacter(i), conds[i])
                         EXCEPT !.position = places[i]]
                 ELSE createDefaultCharacter(i)
        IN [c EXCEPT !.weaponDamageBonus = equipment.weapon,
                     !.armorArmorBonus = equipment.armor]],
     !.currentTurn = turn,
     !.turnNumber = number,
     !.movementPointsLeft = pool]

StartPlaces == [i \in Drawn |-> StartPosition(i)]

\* every mix of conditions, at the start cells
TurnRecords ==
  {record(conds, StartPlaces, Unequipped, turn, number, pool) :
     conds \in [Drawn -> Conditions], turn \in Team,
     number \in 1..MaxTurnNumber, pool \in {0, MOVEMENT_POINTS_PER_TURN}}

\* weapons or armour worn by everyone
EquippedRecords ==
  {record(conds, StartPlaces, equipment, PLAYER1, 1, MOVEMENT_POINTS_PER_TURN) :
     conds \in [Drawn -> {"fresh", "spent"}], equipment \in Equipments}

\* the first warrior and the archer of team 1 and the first warrior of team 2
\* on any three cells of the grid, the others dead where they started
Placed == {1, 2, CharsPerTeam + 1}

GridPlaces ==
  {[i \in Drawn |-> IF i = 1 THEN a ELSE IF i = 2 THEN b
                   ELSE IF i = CharsPerTeam + 1 THEN c ELSE StartPosition(i)] :
     a \in Cells, b \in Cells, c \in Cells}

\* the archer at the end of a row of the real board, the target along the
\* row at every distance, the warrior on the row or beside the archer
RowPlaces ==
  {[i \in Drawn |-> IF i = 2 THEN Pos(0, 0)
                   ELSE IF i = CharsPerTeam + 1 THEN Pos(d, 0)
                   ELSE IF i = 1 THEN w ELSE StartPosition(i)] :
     d \in 1..(GRID_WIDTH - 1),
     w \in {Pos(k, 0) : k \in 1..(GRID_WIDTH - 1)} \cup {Pos(0, 1)}}

PlacedRecords ==
  {record([i \in Drawn |-> IF i \in Placed THEN "fresh" ELSE "dead"],
          places, Unequipped, turn, 1, MOVEMENT_POINTS_PER_TURN) :
     places \in {pl \in GridPlaces \cup RowPlaces :
                   /\ \A i \in Placed, j \in Placed : i # j => pl[i] # pl[j]
                   /\ \A i \in Placed, j \in CharIds \ Drawn :
                        pl[i] # StartPosition(j)},
     turn \in Team}

UnitRecords == TurnRecords \cup EquippedRecords \cup PlacedRecords

FirstCall == call.fn = "none"

Called(fn, a, b, out) ==
  /\ call' = [fn |-> fn, n |-> call.n + 1, gs |-> call.out, a |-> a, b |-> b,
              out |-> out, prev |-> [fn |-> call.fn, gs |-> call.gs]]
  /\ UNCHANGED <<activeBattles, turnTimers, battleTimers, botCallbacks, evictions,
                 battleEnds, orphanTimeouts, created, steps, last, frame>>

UnitInit ==
  /\ ServerStarted
  /\ frame = NoFrame
  /\ \E gs \in UnitRecords :
       call = [fn |-> "none", n |-> 0, gs |-> gs, a |-> NoChar, b |-> NoChar,
               out |-> gs, prev |-> [fn |-> "none", gs |-> gs]]

TurnManagerCalls == {"none", "startTurn", "endTurn", "autoEndTurnIfNeeded"}

StartTurnCall ==
  /\ call.fn \in TurnManagerCalls /\ call.n < MaxCalls
  /\ Called("startTurn", NoChar, NoChar, startTurn(call.out))

EndTurnCall ==
  /\ call.fn \in TurnManagerCalls /\ call.n < MaxCalls
  /\ Called("endTurn", NoChar, NoChar, endTurn(call.out))

AutoEndTurnIfNeededCall ==
  /\ call.fn \in TurnManagerCalls /\ call.n < MaxCalls
  /\ Called("autoEndTurnIfNeeded", NoChar, NoChar, autoEndTurnIfNeeded(call.out))

HasActionsLeftCall ==
  /\ FirstCall
  /\ Called("hasActionsLeft", NoChar, NoChar, hasActionsLeft(call.out))

CanAttackCall(attackerId, targetId) ==
  /\ FirstCall
  /\ Called("canAttack", attackerId, targetId,
            canAttack(call.out.characters[attackerId],
                      call.out.characters[targetId], call.out))

ExecuteAttackCall(attackerId, targetId) ==
  /\ FirstCall
  /\ Called("executeAttack", attackerId, targetId,
            executeAttack(attackerId, targetId, call.out))

CheckBattleEndCall ==
  /\ FirstCall
  /\ Called("checkBattleEnd", NoChar, NoChar, checkBattleEnd(call.out))

DetermineWinnerByTimeCall ==
  /\ FirstCall
  /\ Called("determineWinnerByTime", NoChar, NoChar, determineWinnerByTime(call.out))

\* MovementSystem is handed records whose characters stand on the grid
CanMoveCall(characterId, to) ==
  /\ FirstCall
  /\ \A i \in CharIds : isValidPosition(call.out.characters[i].position)
  /\ Called("canMove", characterId, to,
            canMove_old(call.out.characters[characterId], to, call.out))

\* BattleManager.createBattle for two players; it reads nothing of the record
CreateBattleCall(player1Id, player2Id) ==
  /\ FirstCall
  /\ Called("createBattle", player1Id, player2Id,
            createBattleAsWritten(player1Id, player2Id))

UnitNext ==
  \/ StartTurnCall
  \/ EndTurnCall
  \/ AutoEndTurnIfNeededCall
  \/ HasActionsLeftCall
  \/ \E a \in CharIds, t \in CharIds : CanAttackCall(a, t)
  \/ \E a \in CharIds, t \in CharIds : ExecuteAttackCall(a, t)
  \/ CheckBattleEndCall
  \/ DetermineWinnerByTimeCall
  \/ \E c \in CharIds, to \in Cells \cup {OffGrid} : CanMoveCall(c, to)
  \/ \E player2Id \in {Player2Id, AI_BOT} : CreateBattleCall(Player1Id, player2Id)

UnitSpec == UnitInit /\ [][UnitNext]_vars

-----------------------------------------------------------------------------
(* One invocation of MovementSystem.findPath, pass by pass.  SearchSpec     *)
(* draws the arguments: the characters of a record with three living        *)
(* characters anywhere on the grid, the moving character and the goal.  The *)
(* function runs to completion once called, hence the fairness condition.   *)

SearchInit ==
  /\ ServerStarted
  /\ call = NoCall
  /\ \E gs \in PlacedRecords, c \in CharIds, goal \in Cells \cup {OffGrid} :
       /\ gs.currentTurn = PLAYER1
       /\ \A i \in CharIds : isValidPosition(gs.characters[i].position)
       /\ frame = [pc |-> "called", start |-> gs.characters[c].position, goal |-> goal,
                   characters |-> gs.characters, movingCharacterId |-> c]

FindPathEnter ==
  /\ frame.pc = "called"
  /\ frame' = findPathEnter(frame.start, frame.goal, frame.characters,
                            frame.movingCharacterId)
  /\ UNCHANGED <<activeBattles, turnTimers, battleTimers, botCallbacks, evictions,
                 battleEnds, orphanTimeouts, created, steps, last, call>>

FindPathIterate ==
  /\ frame.pc = "loop"
  /\ frame' = findPathIterate(frame)
  /\ UNCHANGED <<activeBattles, turnTimers, battleTimers, botCallbacks, evictions,
                 battleEnds, orphanTimeouts, created, steps, last, call>>

SearchNext ==
  \/ FindPathEnter
  \/ FindPathIterate

SearchSpec == SearchInit /\ [][SearchNext]_vars /\ WF_vars(SearchNext)

-----------------------------------------------------------------------------
(* Properties                                                               *)

Exists == BattleId \in DOMAIN activeBattles
Battle == activeBattles[BattleId]
IsAction == last'.handler \in {"battleAction", "botCallback"}
Submitted(type) == IsAction /\ last'.outcome = "processed" /\ last'.type = type
Accepted(type) == Submitted(type) /\ last'.success
NoneAlive(gs, team) == AliveOf(gs, team) = {}

\* C1: once the status of a battle is finished, no handler run changes its
\* status, winner, currentTurn, turnNumber or any character while the record
\* is kept in the registry.
C1_FinishedIsTerminal ==
  [][(Exists /\ Battle.status = "finished" /\ BattleId \in DOMAIN activeBattles')
       => /\ activeBattles'[BattleId].status = Battle.status
          /\ activeBattles'[BattleId].winner = Battle.winner
          /\ activeBattles'[BattleId].currentTurn = Battle.currentTurn
          /\ activeBattles'[BattleId].turnNumber = Battle.turnNumber
          /\ activeBattles'[BattleId].characters = Battle.characters]_vars

\* C2: a MOVE, ATTACK or END_TURN submitted by the participant whose team is
\* not currentTurn returns success = false and leaves the battle record, the
\* timers and the scheduled callbacks as they were.
C2_OffTurnRejected ==
  [][(/\ Exists
      /\ IsAction
      /\ last'.type \in {"MOVE", "ATTACK", "END_TURN"}
      /\ getPlayerTeam(last'.playerId, Battle) # NoTeam
      /\ getPlayerTeam(last'.playerId, Battle) # Battle.currentTurn)
       => /\ last'.outcome = "processed"
          /\ ~ last'.success
          /\ activeBattles' = activeBattles
          /\ turnTimers' = turnTimers
          /\ battleTimers' = battleTimers
          /\ botCallbacks' = botCallbacks
          /\ evictions' = evictions
          /\ battleEnds' = battleEnds]_vars

C2_OffTurnRejectedSeen ==
  /\ Exists
  /\ last.handler = "battleAction"
  /\ last.type = "MOVE"
  /\ last.outcome = "processed"
  /\ ~ last.success
  /\ last.error = "Not your turn"
  /\ Battle.status = "active"
  /\ getPlayerTeam(last.playerId, Battle) = OtherTeam(Battle.currentTurn)

\* C3: every accepted MOVE or ATTACK names, as mover or attacker, a character
\* of the team whose turn it is.
C3_ActorOfActiveTeam ==
  [][(Accepted("MOVE") \/ Accepted("ATTACK"))
       => Battle.characters[last'.characterId].team = Battle.currentTurn]_vars

\* C4: when the turn deadline of an active battle expires, the END_TURN of the
\* system actor is accepted: currentTurn flips and the other team's turn starts.
C4_TurnTimeoutEndsTurn ==
  [][(last'.handler = "turnTimeout" /\ Exists /\ Battle.status = "active")
       => /\ last'.success
          /\ activeBattles'[BattleId].currentTurn = OtherTeam(Battle.currentTurn)
          /\ activeBattles'[BattleId].movementPointsLeft = MOVEMENT_POINTS_PER_TURN]_vars

\* C5: when the battle deadline expires while the battle is active, the battle
\* becomes finished and its winner is the team determineWinnerByTime chooses on
\* the state at expiry; the team with more living characters wins.
C5_BattleTimeoutFinishes ==
  [][(last'.handler = "battleTimeout" /\ Exists /\ Battle.status = "active")
       => /\ BattleId \in DOMAIN activeBattles'
          /\ activeBattles'[BattleId].status = "finished"
          /\ activeBattles'[BattleId].winner = determineWinnerByTime(Battle)
          /\ \A t \in Team :
               Cardinality(AliveOf(Battle, t)) > Cardinality(AliveOf(Battle, OtherTeam(t)))
                 => activeBattles'[BattleId].winner = t
          /\ activeBattles'[BattleId].characters = Battle.characters]_vars

C5_BattleTimeoutSeen ==
  /\ Exists
  /\ last.handler = "battleTimeout"
  /\ last.outcome = "finished"
  /\ Battle.status = "finished"
  /\ Cardinality(AliveOf(Battle, PLAYER1)) = 2
  /\ Cardinality(AliveOf(Battle, PLAYER2)) = 1
  /\ Battle.winner = PLAYER1

\* C6: a SURRENDER submitted by either player of an active battle, on either
\* team's turn, finishes the battle with the opponent's team as winner.
C6_SurrenderFinishes ==
  [][(/\ Exists
      /\ last'.handler = "battleAction"
      /\ last'.type = "SURRENDER"
      /\ Battle.status = "active"
      /\ getPlayerTeam(last'.playerId, Battle) # NoTeam)
       => /\ activeBattles'[BattleId].status = "finished"
          /\ activeBattles'[BattleId].winner = OtherTeam(getPlayerTeam(last'.playerId, Battle))]_vars

\* C7: after every accepted ATTACK the status is finished exactly when one team
\* has no living character, the winner is then the team that still has some,
\* and otherwise the status is active and no winner is set.
C7_AttackEndsBattleExactly ==
  [][Accepted("ATTACK")
       => LET after == activeBattles'[BattleId]
          IN IF NoneAlive(after, PLAYER1) \/ NoneAlive(after, PLAYER2)
             THEN /\ after.status = "finished"
                  /\ after.winner \in Team
                  /\ ~ NoneAlive(after, after.winner)
             ELSE /\ after.status = "active"
                  /\ after.winner = NoTeam]_vars

\* the pools after character c of the active team has spent one point: the
\* team-level pool is at zero or every living character of the team is
PoolsExhaustedBy(gs, c) ==
  \/ gs.movementPointsLeft - 1 <= 0
  \/ \A i \in AliveOf(gs, gs.currentTurn) :
       (IF i = c THEN gs.characters[i].movementPointsLeft - 1
                 ELSE gs.characters[i].movementPointsLeft) <= 0

\* C8: an accepted MOVE in an active battle hands the turn to the other team
\* only if that move exhausted a movement pool; a MOVE that leaves points in
\* the pools leaves currentTurn unchanged.
C8_MoveEndsTurnOnlyWhenExhausted ==
  [][(/\ Accepted("MOVE")
      /\ Battle.status = "active"
      /\ activeBattles'[BattleId].currentTurn # Battle.currentTurn)
       => PoolsExhaustedBy(Battle, last'.characterId)]_vars

\* C9: an accepted ATTACK that does not end the battle hands the turn to the
\* other team only when hasActionsLeft is false after the attack; otherwise
\* currentTurn is unchanged.  (Stated for an active battle and an attacker of
\* the active team, the case the claim is about.)
C9_AttackEndsTurnOnlyWithoutActions ==
  [][(/\ Accepted("ATTACK")
      /\ Battle.status = "active"
      /\ Battle.characters[last'.characterId].team = Battle.currentTurn
      /\ activeBattles'[BattleId].status # "finished"
      /\ activeBattles'[BattleId].currentTurn # Battle.currentTurn)
       => ~ hasActionsLeft(executeAttack(last'.characterId, last'.targetId, Battle).state)]_vars

\* C10: whenever a turn ends while the battle stays active and a turn deadline
\* is pending, that deadline is cancelled and a fresh one is armed for the new
\* turn.
C10_TurnChangeRearmsDeadline ==
  [][(/\ Exists
      /\ BattleId \in DOMAIN activeBattles'
      /\ turnTimers.pending
      /\ activeBattles'[BattleId].status = "active"
      /\ activeBattles'[BattleId].currentTurn # Battle.currentTurn)
       => /\ turnTimers'.pending
          /\ turnTimers'.armedTurn = activeBattles'[BattleId].currentTurn
          /\ turnTimers'.armedTurnNumber = activeBattles'[BattleId].turnNumber]_vars

\* C11: when an explicit END_TURN is accepted while a turn deadline is pending
\* and the battle stays active, the pending deadline is cancelled and a new
\* one is armed for the turn that starts; no cancelled timeout stays scheduled.
C11_EndTurnRearmsDeadline ==
  [][(/\ Exists
      /\ Accepted("END_TURN")
      /\ turnTimers.pending
      /\ activeBattles'[BattleId].status = "active")
       => /\ turnTimers'.pending
          /\ turnTimers'.armedTurn = activeBattles'[BattleId].currentTurn
          /\ turnTimers'.armedTurnNumber = activeBattles'[BattleId].turnNumber
          /\ <<turnTimers'.armedTurn, turnTimers'.armedTurnNumber>>
               # <<turnTimers.armedTurn, turnTimers.armedTurnNumber>>
          /\ orphanTimeouts' = 0]_vars

\* the first handler run after the match was made is an accepted END_TURN of
\* player 1: the deadline of turn 1 was pending, the one of PLAYER2 is armed
C11_EndTurnRearmsDeadlineSeen ==
  /\ Exists
  /\ steps = 2
  /\ last.handler = "battleAction"
  /\ last.type = "END_TURN"
  /\ last.success
  /\ Battle.player2Id = Player2Id
  /\ Battle.status = "active"
  /\ turnTimers.pending
  /\ turnTimers.armedTurn = PLAYER2
  /\ battleTimers.pending

\* C12: the battle deadline is armed by the handler run that creates the
\* battle, matchmade or against the automated opponent, and no other handler
\* run arms or re-arms it.
C12_BattleDeadlineArmedOnce ==
  [][IF last'.outcome = "created"
     THEN battleTimers'.pending
     ELSE battleTimers'.pending => battleTimers' = battleTimers]_vars

\* C13: in every state in which the battle is finished, by kill, surrender or
\* battle timeout, neither a turn deadline nor a battle deadline is pending
\* for it, in the maps or outside them.
C13_FinishedHasNoDeadline ==
  (Exists /\ Battle.status = "finished")
    => /\ ~ turnTimers.pending
       /\ ~ battleTimers.pending
       /\ orphanTimeouts = 0

\* a matchmade battle, whose two deadlines were armed at creation, finished by
\* the surrender of player 1 in the next handler run
C13_FinishedHasNoDeadlineSeen ==
  /\ Exists
  /\ steps = 2
  /\ last.handler = "battleAction"
  /\ last.type = "SURRENDER"
  /\ last.success
  /\ Battle.player2Id = Player2Id
  /\ Battle.status = "finished"
  /\ ~ turnTimers.pending
  /\ ~ battleTimers.pending

\* a deadline is pending only while the battle is in the registry and active:
\* every path to finished or to eviction cancels both deadlines first, so the
\* guards of handleTurnTimeout and handleBattleTimeout never turn a callback away
DeadlinePendingOnlyWhileActive ==
  (turnTimers.pending \/ battleTimers.pending)
    => (Exists /\ Battle.status = "active" /\ last.outcome # "stale")

\* C15: a character whose isAlive is false cannot act: no MOVE naming it as
\* mover and no ATTACK naming it as attacker is accepted.  (Stated for an
\* active battle and a character of the team whose turn it is.)
C15_DeadCannotAct ==
  [][(/\ Accepted("MOVE") \/ Accepted("ATTACK")
      /\ Battle.status = "active"
      /\ Battle.characters[last'.characterId].team = Battle.currentTurn)
       => Battle.characters[last'.characterId].isAlive]_vars

\* C16: a character whose currentHp has been reduced to 0 cannot be targeted
\* again: no ATTACK naming it as target is accepted, a rejected ATTACK leaves
\* the battle record (the attacker's hasAttacked included) as it was, and the
\* currentHp of the character stays 0.
C16_DeadCannotBeTargeted ==
  [][/\ Accepted("ATTACK")
          => /\ Battle.characters[last'.targetId].currentHp > 0
             /\ Battle.characters[last'.targetId].isAlive
     /\ (Exists /\ Submitted("ATTACK") /\ ~ last'.success)
          => activeBattles' = activeBattles
     /\ (Exists /\ BattleId \in DOMAIN activeBattles')
          => \A i \in CharIds :
               Battle.characters[i].currentHp = 0
                 => activeBattles'[BattleId].characters[i].currentHp = 0]_vars

\* an ATTACK on a killed character has just been turned away
C16_DeadCannotBeTargetedSeen ==
  /\ Exists
  /\ last.handler = "battleAction"
  /\ last.type = "ATTACK"
  /\ ~ last.success
  /\ last.error = "Target is not alive"
  /\ Battle.status = "active"
  /\ \E i \in CharIds : Battle.characters[i].currentHp = 0 /\ ~ Battle.characters[i].isAlive

\* C17: in every state every character of the battle has
\* 0 <= currentHp <= maxHp, and isAlive holds exactly when currentHp > 0.
C17_HpWithinBounds ==
  Exists => \A i \in CharIds :
              /\ 0 <= Battle.characters[i].currentHp
              /\ Battle.characters[i].currentHp <= Battle.characters[i].maxHp
              /\ Battle.characters[i].isAlive <=> Battle.characters[i].currentHp > 0

\* attacks have wounded one character and killed another
C17_HpWithinBoundsSeen ==
  /\ Exists
  /\ \E i \in CharIds : /\ Battle.characters[i].isAlive
                        /\ 0 < Battle.characters[i].currentHp
                        /\ Battle.characters[i].currentHp < Battle.characters[i].maxHp
  /\ \E i \in CharIds : /\ ~ Battle.characters[i].isAlive
                        /\ Battle.characters[i].currentHp = 0

PoolsNonNegative ==
  Exists => /\ Battle.movementPointsLeft >= 0
            /\ \A i \in CharIds : Battle.characters[i].movementPointsLeft >= 0

C19_MoveChargesBothPools ==
  [][(Exists /\ Accepted("MOVE"))
       => LET c == last'.characterId
              after == activeBattles'[BattleId]
              pathLength == calculateDistance(Battle.characters[c].position, last'.to)
          IN /\ after.characters[c].position = last'.to
             /\ after.characters[c].movementPointsLeft
                  = Battle.characters[c].movementPointsLeft - pathLength
             /\ after.movementPointsLeft = Battle.movementPointsLeft - pathLength]_vars

\* C19 amended: the character is charged and stands on the destination after
\* every accepted MOVE; the team-level pool is charged when the move leaves
\* the turn with the same team, and is the refilled pool of the next team
\* when the move hands the turn over.
C19_MoveChargesPoolsOfTurn ==
  [][(Exists /\ Accepted("MOVE"))
       => LET c == last'.characterId
              after == activeBattles'[BattleId]
              pathLength == calculateDistance(Battle.characters[c].position, last'.to)
          IN /\ pathLength = 1
             /\ after.characters[c].position = last'.to
             /\ after.characters[c].movementPointsLeft
                  = Battle.characters[c].movementPointsLeft - pathLength
             /\ after.movementPointsLeft
                  = IF after.currentTurn = Battle.currentTurn
                    THEN Battle.movementPointsLeft - pathLength
                    ELSE MOVEMENT_POINTS_PER_TURN]_vars

\* the first MOVE of turn 1 has been accepted and left the turn with PLAYER1
C19_MoveChargesPoolsOfTurnSeen ==
  /\ Exists
  /\ last.type = "MOVE"
  /\ last.success
  /\ Battle.currentTurn = PLAYER1
  /\ Battle.turnNumber = 1
  /\ Battle.characters[last.characterId].position = last.to
  /\ Battle.characters[last.characterId].movementPointsLeft = MOVEMENT_POINTS_PER_TURN - 1
  /\ Battle.movementPointsLeft = MOVEMENT_POINTS_PER_TURN - 1

\* C20: every processAction call that returns success = false (a rule
\* violation, an unknown character or target id, an unsupported action kind,
\* an exception caught inside a handler) leaves the battle record unchanged.
C20_FailureLeavesRecord ==
  [][(Exists /\ IsAction /\ last'.outcome = "processed" /\ ~ last'.success)
       => activeBattles' = activeBattles]_vars

\* the player whose turn it is has submitted a MOVE without a destination and
\* the exception was returned as a failure
C20_FailureLeavesRecordSeen ==
  /\ Exists
  /\ last.handler = "battleAction"
  /\ last.outcome = "processed"
  /\ ~ last.success
  /\ last.type = "MOVE"
  /\ last.error = TypeErrorMessage
  /\ getPlayerTeam(last.playerId, Battle) = Battle.currentTurn

-----------------------------------------------------------------------------
(* Properties of the functions called on their own (UnitSpec)               *)

IsCall(fn) == call.fn = fn
ByTurnManager == call.fn \in {"startTurn", "endTurn", "autoEndTurnIfNeeded"}

\* C21: endTurn hands the turn to the other team and adds 1 to turnNumber
\* exactly when the new team is PLAYER1; two consecutive endTurn calls give
\* the turn back to the team they started from with turnNumber one higher;
\* no TurnManager call lowers turnNumber, and none raises it except on a
\* change of currentTurn to PLAYER1.
C21_EndTurnAlternates ==
  /\ IsCall("endTurn") =>
       /\ call.out.currentTurn = OtherTeam(call.gs.currentTurn)
       /\ call.out.turnNumber =
            call.gs.turnNumber + (IF call.out.currentTurn = PLAYER1 THEN 1 ELSE 0)
  /\ (IsCall("endTurn") /\ call.prev.fn = "endTurn") =>
       /\ call.out.currentTurn = call.prev.gs.currentTurn
       /\ call.out.turnNumber = call.prev.gs.turnNumber + 1
  /\ ByTurnManager =>
       /\ call.out.turnNumber >= call.gs.turnNumber
       /\ call.out.turnNumber > call.gs.turnNumber =>
            (call.gs.currentTurn = PLAYER2 /\ call.out.currentTurn = PLAYER1)

C21_EndTurnAlternatesSeen ==
  /\ IsCall("endTurn")
  /\ call.prev.fn = "endTurn"
  /\ call.prev.gs.currentTurn = PLAYER1
  /\ call.gs.currentTurn = PLAYER2
  /\ call.gs.turnNumber = call.prev.gs.turnNumber
  /\ call.out.currentTurn = PLAYER1
  /\ call.out.turnNumber = call.prev.gs.turnNumber + 1

\* C22: startTurn clears hasAttacked and refills movementPointsLeft of every
\* living character of currentTurn, refills the team-level pool, and leaves
\* everything else of these characters, every character of the other team,
\* every dead character and the rest of the record as they were.
C22_StartTurnFrame ==
  IsCall("startTurn") =>
    /\ \A i \in CharIds :
         call.out.characters[i] =
           IF call.gs.characters[i].team = call.gs.currentTurn
              /\ call.gs.characters[i].isAlive
           THEN [call.gs.characters[i] EXCEPT
                   !.hasAttacked = FALSE,
                   !.movementPointsLeft = MOVEMENT_POINTS_PER_TURN]
           ELSE call.gs.characters[i]
    /\ call.out.movementPointsLeft = MOVEMENT_POINTS_PER_TURN
    /\ call.out = [call.gs EXCEPT !.characters = call.out.characters,
                                  !.movementPointsLeft = call.out.movementPointsLeft]

\* a call that reset a living character and passed over a dead team-mate and
\* a spent opponent
C22_StartTurnFrameSeen ==
  /\ IsCall("startTurn")
  /\ call.gs.movementPointsLeft = 0
  /\ \E i \in CharIds, j \in CharIds, k \in CharIds :
       /\ call.gs.characters[i].team = call.gs.currentTurn
       /\ call.gs.characters[i].isAlive
       /\ call.gs.characters[i].hasAttacked
       /\ call.gs.characters[i].movementPointsLeft = 0
       /\ ~ call.out.characters[i].hasAttacked
       /\ call.out.characters[i].movementPointsLeft = MOVEMENT_POINTS_PER_TURN
       /\ call.gs.characters[j].team = call.gs.currentTurn
       /\ ~ call.gs.characters[j].isAlive
       /\ call.out.characters[j].hasAttacked
       /\ call.gs.characters[k].team # call.gs.currentTurn
       /\ call.gs.characters[k].isAlive
       /\ call.out.characters[k].hasAttacked
       /\ call.out.characters[k].movementPointsLeft = 0

\* C23: executeAttack deals the attacker's baseDamage plus weapon bonus minus
\* the target's baseArmor plus armour bonus, but at least 1; the target's
\* currentHp becomes its old value minus the damage, but at least 0; killed
\* is reported exactly when that is 0; the attacker's hasAttacked is set; no
\* other character changes.
C23_AttackDamage ==
  IsCall("executeAttack") =>
    LET attacker == call.gs.characters[call.a]
        target == call.gs.characters[call.b]
        raw == (attacker.baseDamage + attacker.weaponDamageBonus)
                 - (target.baseArmor + target.armorArmorBonus)
        damage == IF raw < 1 THEN 1 ELSE raw
        hp == IF target.currentHp - damage < 0 THEN 0 ELSE target.currentHp - damage
    IN /\ call.out.damage = damage
       /\ call.out.damage >= 1
       /\ call.out.state.characters[call.b].currentHp = hp
       /\ call.out.killed <=> (hp = 0)
       /\ call.out.state.characters[call.a].hasAttacked
       /\ \A i \in CharIds \ {call.a, call.b} :
            call.out.state.characters[i] = call.gs.characters[i]

\* armour that outweighs the blow: the damage is 1 and the target lives on
C23_AttackDamageSeen ==
  /\ IsCall("executeAttack")
  /\ call.a # call.b
  /\ call.gs.characters[call.a].baseDamage
       < call.gs.characters[call.b].baseArmor + call.gs.characters[call.b].armorArmorBonus
  /\ call.out.damage = 1
  /\ call.gs.characters[call.b].currentHp > 1
  /\ call.out.state.characters[call.b].currentHp = call.gs.characters[call.b].currentHp - 1
  /\ ~ call.out.killed
  /\ ~ call.gs.characters[call.a].hasAttacked
  /\ call.out.state.characters[call.a].hasAttacked

\* C24: checkBattleEnd reports ended exactly when a team has no living
\* character, and the winner it names is then the player of the other team,
\* a team that still has a living character.
C24_BattleEndWinner ==
  IsCall("checkBattleEnd") =>
    /\ call.out.ended <=> (NoneAlive(call.gs, PLAYER1) \/ NoneAlive(call.gs, PLAYER2))
    /\ call.out.ended =>
         \E team \in Team :
           /\ call.out.winner = (IF team = PLAYER1 THEN call.gs.player1Id
                                 ELSE call.gs.player2Id)
           /\ NoneAlive(call.gs, OtherTeam(team))
           /\ ~ NoneAlive(call.gs, team)

LivingCount(gs, team) == Cardinality(AliveOf(gs, team))
LivingHp(gs, team) == SumHp(gs, AliveOf(gs, team))

\* C25: determineWinnerByTime names the team with more living characters;
\* with as many on both sides, the team whose living characters have the
\* greater summed currentHp; with equal sums, PLAYER1.  The two counts and
\* the two sums decide the answer.
C25_WinnerByTime ==
  IsCall("determineWinnerByTime") =>
    LET n1 == LivingCount(call.gs, PLAYER1)
        n2 == LivingCount(call.gs, PLAYER2)
        h1 == LivingHp(call.gs, PLAYER1)
        h2 == LivingHp(call.gs, PLAYER2)
    IN /\ n1 > n2 => call.out = PLAYER1
       /\ n2 > n1 => call.out = PLAYER2
       /\ (n1 = n2 /\ h1 > h2) => call.out = PLAYER1
       /\ (n1 = n2 /\ h2 > h1) => call.out = PLAYER2
       /\ (n1 = n2 /\ h1 = h2) => call.out = PLAYER1

\* as many living on both sides and the second team healthier
C25_WinnerByTimeSeen ==
  /\ IsCall("determineWinnerByTime")
  /\ LivingCount(call.gs, PLAYER1) = LivingCount(call.gs, PLAYER2)
  /\ LivingCount(call.gs, PLAYER1) > 0
  /\ LivingHp(call.gs, PLAYER2) > LivingHp(call.gs, PLAYER1)
  /\ call.out = PLAYER2

\* some living character of the active team can still move or attack
SomeoneCanAct(gs) ==
  \E i \in CharIds :
    /\ gs.characters[i].team = gs.currentTurn
    /\ gs.characters[i].isAlive
    /\ (gs.characters[i].movementPointsLeft > 0 \/ ~ gs.characters[i].hasAttacked)

\* C30: hasActionsLeft is true exactly when some living character of the
\* active team has movement points left or has not attacked yet;
\* autoEndTurnIfNeeded returns what endTurn returns when no such character
\* exists and the record as it was otherwise.
C30_AutoEndTurn ==
  /\ IsCall("hasActionsLeft") => (call.out <=> SomeoneCanAct(call.gs))
  /\ IsCall("autoEndTurnIfNeeded") =>
       call.out = IF SomeoneCanAct(call.gs) THEN call.gs ELSE endTurn(call.gs)

\* the only living character of the active team is spent, its dead team-mate
\* still holds a movement point: the turn is handed over
C30_AutoEndTurnSeen ==
  /\ IsCall("autoEndTurnIfNeeded")
  /\ \E i \in CharIds, j \in CharIds :
       /\ call.gs.characters[i].team = call.gs.currentTurn
       /\ call.gs.characters[i].isAlive
       /\ call.gs.characters[j].team = call.gs.currentTurn
       /\ ~ call.gs.characters[j].isAlive
       /\ call.gs.characters[j].movementPointsLeft > 0
  /\ ~ SomeoneCanAct(call.gs)
  /\ call.out.currentTurn = OtherTeam(call.gs.currentTurn)

\* a living character other than a and t stands on the straight segment
\* between the cells of a and t
Obstructed(gs, a, t) ==
  \E i \in CharIds \ {a, t} :
    /\ gs.characters[i].isAlive
    /\ OnSegment(gs.characters[i].position,
                 gs.characters[a].position, gs.characters[t].position)

\* C28: for an attacker that has not attacked and a living target of the
\* other team, canAttack accepts a MELEE attacker exactly at grid distance
\* <= 1 and answers "out of melee range" beyond (distance 2 included); it
\* accepts a RANGED attacker exactly at grid distance <= 4 with no other
\* living character's cell obstructing the line of sight.  No attack is
\* accepted outside these ranges.
C28_AttackRange ==
  IsCall("canAttack") =>
    LET attacker == call.gs.characters[call.a]
        target == call.gs.characters[call.b]
        distance == Abs(attacker.position.x - target.position.x)
                      + Abs(attacker.position.y - target.position.y)
        eligible == ~ attacker.hasAttacked /\ target.isAlive
                      /\ attacker.team # target.team
    IN /\ call.out = Valid => eligible
       /\ (eligible /\ attacker.combatType = "MELEE") =>
            call.out = IF distance <= 1 THEN Valid ELSE "Target is out of melee range"
       /\ (eligible /\ attacker.combatType = "RANGED") =>
            (call.out = Valid <=> (distance <= 4 /\ ~ Obstructed(call.gs, call.a, call.b)))

\* an archer accepted at distance 4 along a row, the third living character
\* standing on the row beyond the target
C28_AttackRangeSeen ==
  /\ IsCall("canAttack")
  /\ call.gs.characters[call.a].combatType = "RANGED"
  /\ call.gs.characters[call.a].position.y = call.gs.characters[call.b].position.y
  /\ calculateDistance(call.gs.characters[call.a].position,
                       call.gs.characters[call.b].position) = 4
  /\ \E i \in CharIds \ {call.a, call.b} :
       /\ call.gs.characters[i].isAlive
       /\ call.gs.characters[i].position.y = call.gs.characters[call.a].position.y
       /\ calculateDistance(call.gs.characters[call.a].position,
                            call.gs.characters[i].position) > 4
  /\ call.out = Valid

\* the cells character c reaches in at most n steps to orthogonal neighbours
\* on the grid, stepping only on cells where no other living character stands
RECURSIVE Within(_, _, _)
Within(gs, c, n) ==
  IF n = 0 THEN {gs.characters[c].position}
  ELSE LET near == Within(gs, c, n - 1)
       IN near \cup
          {p \in Cells :
             /\ \E q \in near : Abs(p.x - q.x) + Abs(p.y - q.y) = 1
             /\ ~ \E i \in CharIds \ {c} : /\ gs.characters[i].isAlive
                                           /\ gs.characters[i].position = p}

\* C26: the path-budgeted canMove accepts a destination exactly when it is
\* the turn of the character's team, the destination is a cell of the grid
\* other than the character's own, no other living character stands on it,
\* and a path of orthogonal steps over cells free of other living characters
\* leads to it in at most movementPointsLeft steps.
C26_PathBudgetedMove ==
  IsCall("canMove") =>
    LET c == call.gs.characters[call.a]
        to == call.b
    IN call.out = Valid <=>
         /\ c.team = call.gs.currentTurn
         /\ to \in Cells
         /\ to # c.position
         /\ ~ \E i \in CharIds \ {call.a} : /\ call.gs.characters[i].isAlive
                                            /\ call.gs.characters[i].position = to
         /\ to \in Within(call.gs, call.a, c.movementPointsLeft)

\* C31: createBattle returns a battle that is active, with PLAYER1 on turn,
\* turn number 1, the full team movement budget and no winner, and with
\* exactly three characters for each team, every one alive at full health,
\* not having attacked, with the full movement budget, on a cell of the
\* board that no other character stands on.
C31_CreateBattle ==
  IsCall("createBattle") =>
    LET gs == call.out
        ids == DOMAIN gs.characters
    IN /\ gs.status = "active"
       /\ gs.currentTurn = PLAYER1
       /\ gs.turnNumber = 1
       /\ gs.movementPointsLeft = MOVEMENT_POINTS_PER_TURN
       /\ gs.winner = NoTeam
       /\ gs.player1Id = call.a /\ gs.player2Id = call.b
       /\ \A team \in Team :
            Cardinality({i \in ids : gs.characters[i].team = team}) = 3
       /\ \A i \in ids :
            /\ gs.characters[i].team \in Team
            /\ gs.characters[i].isAlive
            /\ gs.characters[i].maxHp > 0
            /\ gs.characters[i].currentHp = gs.characters[i].maxHp
            /\ ~ gs.characters[i].hasAttacked
            /\ gs.characters[i].movementPointsLeft = MOVEMENT_POINTS_PER_TURN
            /\ gs.characters[i].position.x >= 0
            /\ gs.characters[i].position.x < gs.gridWidth
            /\ gs.characters[i].position.y >= 0
            /\ gs.characters[i].position.y < gs.gridHeight
       /\ \A i \in ids, j \in ids :
            i # j => /\ gs.characters[i].position # gs.characters[j].position
                     /\ gs.characters[i].id # gs.characters[j].id

\* a battle against the bot, six characters on the two outer columns
C31_CreateBattleSeen ==
  /\ IsCall("createBattle")
  /\ call.out.player2Id = AI_BOT
  /\ Len(call.out.characters) = 6
  /\ \A i \in DOMAIN call.out.characters :
       call.out.characters[i].position.x =
         IF call.out.characters[i].team = PLAYER1 THEN GRID_WIDTH - 1 ELSE 0

-----------------------------------------------------------------------------
(* Properties of the server (Spec), continued                               *)

\* the handler run hands the turn to team: startTurn runs for it
TurnStartsFor(team) ==
  /\ Battle.currentTurn # team
  /\ activeBattles'[BattleId].currentTurn = team

\* C29: an ATTACK is accepted only from an attacker whose hasAttacked is
\* false, and it leaves the flag set unless the same handler run goes on to
\* start the turn of the attacker's team; the flag of a character goes back
\* to false only in a handler run that starts the turn of the character's
\* team.  So a character attacks at most once between two starts of its
\* team's turn.
C29_OneAttackPerTurn ==
  [][/\ Accepted("ATTACK")
          => /\ ~ Battle.characters[last'.characterId].hasAttacked
             /\ \/ activeBattles'[BattleId].characters[last'.characterId].hasAttacked
                \/ TurnStartsFor(Battle.characters[last'.characterId].team)
     /\ (Exists /\ BattleId \in DOMAIN activeBattles')
          => \A i \in CharIds :
               (Battle.characters[i].hasAttacked
                  /\ ~ activeBattles'[BattleId].characters[i].hasAttacked)
                 => TurnStartsFor(Battle.characters[i].team)]_vars

\* a second ATTACK of the turn turned away
C29_OneAttackPerTurnSeen ==
  /\ Exists
  /\ last.handler = "battleAction"
  /\ last.type = "ATTACK"
  /\ ~ last.success
  /\ last.error = "Character has already attacked this turn"
  /\ Battle.status = "active"
  /\ \E i \in CharIds : /\ Battle.characters[i].team = Battle.currentTurn
                        /\ Battle.characters[i].isAlive
                        /\ Battle.characters[i].hasAttacked

-----------------------------------------------------------------------------
(* Properties of the search (SearchSpec)                                    *)

C32_CharactersPersist ==
  [][(Exists /\ BattleId \in DOMAIN activeBattles')
       => /\ DOMAIN activeBattles'[BattleId].characters = DOMAIN Battle.characters
          /\ \A i \in DOMAIN Battle.characters :
               /\ activeBattles'[BattleId].characters[i].id = Battle.characters[i].id
               /\ activeBattles'[BattleId].characters[i].team = Battle.characters[i].team
               /\ activeBattles'[BattleId].characters[i].currentHp
                    <= Battle.characters[i].currentHp
               /\ ~ Battle.characters[i].isAlive
                    => ~ activeBattles'[BattleId].characters[i].isAlive]_vars

\* the turn has changed hands after a kill and the dead character's record
\* is still there
C32_CharactersPersistSeen ==
  /\ Exists
  /\ last.type = "END_TURN"
  /\ last.success
  /\ DOMAIN Battle.characters = CharIds
  /\ \E i \in CharIds : /\ ~ Battle.characters[i].isAlive
                        /\ Battle.characters[i].currentHp = 0
                        /\ Battle.characters[i].team = Battle.currentTurn

Identities == {Player1Id, Player2Id, AI_BOT, SpectatorId, SYSTEM}

\* C33: canAct(playerId) is true exactly when playerId is player1Id and
\* currentTurn is PLAYER1, or playerId is player2Id and currentTurn is
\* PLAYER2; a request made under any other identity is turned away before
\* processAction and leaves the registry, the timers and the scheduled
\* callbacks as they were.
C33_OnlyPlayersAct ==
  /\ [](Exists =>
          \A id \in Identities :
            canAct(id, Battle) <=>
              \/ id = Battle.player1Id /\ Battle.currentTurn = PLAYER1
              \/ id = Battle.player2Id /\ Battle.currentTurn = PLAYER2)
  /\ [][(/\ Exists
         /\ last'.handler \in {"battleAction", "botCallback", "turnTimeout"}
         /\ last'.outcome # "stale"
         /\ last'.playerId \notin {Battle.player1Id, Battle.player2Id})
          => /\ last'.outcome = "spectator"
             /\ ~ last'.success
             /\ activeBattles' = activeBattles
             /\ turnTimers' = [turnTimers EXCEPT !.pending =
                                 IF last'.handler = "turnTimeout" THEN FALSE ELSE @]
             /\ battleTimers' = battleTimers
             /\ botCallbacks' = botCallbacks
             /\ evictions' = evictions
             /\ battleEnds' = battleEnds]_vars

\* a spectator's MOVE turned away from an active battle
C33_OnlyPlayersActSeen ==
  /\ Exists
  /\ Battle.status = "active"
  /\ last.handler = "battleAction"
  /\ last.playerId = SpectatorId
  /\ last.type = "MOVE"
  /\ last.outcome = "spectator"
  /\ ~ last.success

\* C34: in every state of a battle no two living characters stand on the
\* same cell.
C34_OneLivingPerCell ==
  Exists =>
    \A i \in CharIds, j \in CharIds :
      (i # j /\ Battle.characters[i].isAlive /\ Battle.characters[j].isAlive)
        => Battle.characters[i].position # Battle.characters[j].position

\* a MOVE onto the cell of another living character has been turned away,
\* after an accepted MOVE had brought the mover next to it
C34_OneLivingPerCellSeen ==
  /\ Exists
  /\ last.type = "MOVE"
  /\ ~ last.success
  /\ last.error = "Cell is occupied by another character"
  /\ \E i \in CharIds : Battle.characters[i].position # StartPosition(i)

\* a winner is recorded exactly when the status is finished
WinnerIffFinished ==
  Exists => (Battle.winner # NoTeam <=> Battle.status = "finished")

\* C35: in every state of a battle a winner is recorded exactly when the
\* status is finished, and a recorded winner is never replaced by another.
C35_WinnerFinal ==
  /\ [] WinnerIffFinished
  /\ [][(Exists /\ Battle.winner # NoTeam /\ BattleId \in DOMAIN activeBattles')
          => activeBattles'[BattleId].winner = Battle.winner]_vars

\* C36: handleBattleEnd (statistics, BATTLE_END broadcast, scheduling of the
\* eviction) runs at most once for a battle, whatever arrives after the
\* battle has finished.
C36_BattleEndOnce ==
  battleEnds <= 1

\* C37: the deadlines pending for the battle id are at most the one whose
\* handle turnTimers holds and the one whose handle battleTimers holds: no
\* timeout armed earlier is still scheduled beside them, because arming
\* cancels the one armed before.
C37_OneDeadlineEach ==
  /\ orphanTimeouts = 0
  /\ turnTimers.pending => turnTimers.inMap
  /\ battleTimers.pending => battleTimers.inMap

\* the turn deadline has been armed three times, each time over a pending
\* one, and a single one is pending
C37_OneDeadlineEachSeen ==
  /\ Exists
  /\ steps = 3
  /\ last.type = "END_TURN"
  /\ last.success
  /\ turnTimers.pending
  /\ turnTimers.armedTurn = PLAYER1
  /\ turnTimers.armedTurnNumber = 2
  /\ battleTimers.pending
  /\ orphanTimeouts = 0

\* the handler run ends with startTurn having reset character i: the turn
\* has changed hands and i is a living character of the team now on turn
ResetByTurnStart(i) ==
  /\ activeBattles'[BattleId].currentTurn # Battle.currentTurn
  /\ activeBattles'[BattleId].characters[i].team = activeBattles'[BattleId].currentTurn
  /\ activeBattles'[BattleId].characters[i].isAlive

\* what an accepted ATTACK does to the characters, an auto-chained turn
\* start set apart
AttackFrame ==
  Accepted("ATTACK") =>
    \A i \in CharIds :
      LET before == Battle.characters[i]
          after == activeBattles'[BattleId].characters[i]
      IN /\ after.position = before.position
         /\ i # last'.targetId => /\ after.currentHp = before.currentHp
                                  /\ after.isAlive = before.isAlive
         /\ after.hasAttacked =
              IF ResetByTurnStart(i) THEN FALSE
              ELSE IF i = last'.characterId THEN TRUE ELSE before.hasAttacked
         /\ after.movementPointsLeft =
              IF ResetByTurnStart(i) THEN MOVEMENT_POINTS_PER_TURN
              ELSE before.movementPointsLeft

\* C38 as stated: an accepted MOVE changes no character's currentHp, isAlive
\* or hasAttacked and no other character's position; an accepted ATTACK
\* changes no position and, an auto-chained turn start set apart, only the
\* target's currentHp and isAlive and the attacker's hasAttacked.
C38_ActionFrames ==
  [][/\ Accepted("MOVE") =>
          \A i \in CharIds :
            LET before == Battle.characters[i]
                after == activeBattles'[BattleId].characters[i]
            IN /\ after.currentHp = before.currentHp
               /\ after.isAlive = before.isAlive
               /\ after.hasAttacked = before.hasAttacked
               /\ i # last'.characterId => after.position = before.position
     /\ AttackFrame]_vars

\* C38 amended: an accepted MOVE changes no character's currentHp or
\* isAlive and no other character's position, and no hasAttacked except
\* that a turn start chained to the MOVE clears it for the living characters
\* of the team whose turn starts; the ATTACK part as stated.
C38_ActionFramesButTurnStart ==
  [][/\ Accepted("MOVE") =>
          \A i \in CharIds :
            LET before == Battle.characters[i]
                after == activeBattles'[BattleId].characters[i]
            IN /\ after.currentHp = before.currentHp
               /\ after.isAlive = before.isAlive
               /\ after.hasAttacked =
                    IF ResetByTurnStart(i) THEN FALSE ELSE before.hasAttacked
               /\ i # last'.characterId => after.position = before.position
     /\ AttackFrame]_vars

\* a MOVE has handed the turn to PLAYER2: a PLAYER1 character keeps the
\* hasAttacked it had set, its target keeps its wound or its death
C38_ActionFramesButTurnStartSeen ==
  /\ Exists
  /\ last.type = "MOVE"
  /\ last.success
  /\ Battle.currentTurn = PLAYER2
  /\ Battle.turnNumber = 1
  /\ \E i \in CharIds : /\ Battle.characters[i].team = PLAYER1
                        /\ Battle.characters[i].hasAttacked
  /\ \E j \in CharIds : /\ Battle.characters[j].team = PLAYER2
                        /\ Battle.characters[j].currentHp < Battle.characters[j].maxHp
                        /\ ~ Battle.characters[j].hasAttacked

====
